---- MODULE Spec2Model ----
(***************************************************************************)
(* A model of the MattyIce scripts.  Each file of the repository is a      *)
(* standalone script; `script` says which one a behaviour runs.            *)
(*                                                                         *)
(*   mmm_complete_backtest.py        run_simulation: the Monte Carlo       *)
(*                                   capital-path simulator                *)
(*   mmm_option_selling_backtest.py  simulate_option_sell                  *)
(*   mattyice_ibkr_bot.py            IBKRClient and MattyIceBot            *)
(*   rsi_backtest.py                 RSIStrategy                           *)
(*                                                                         *)
(* Money is a Python float.  A float is modelled as an integer count of    *)
(* grid units (1 unit = 2^-GridBits dollars) that carries at most          *)
(* Precision significant bits; every arithmetic operation rounds its exact *)
(* result to the nearest such value, ties to even, as IEEE-754 does.       *)
(* Python's floats have 53 significant bits; Precision scales that down.   *)
(***************************************************************************)
EXTENDS Integers, Sequences, FiniteSets, TLC

\* ------------------------------------------------------------------ bounds
MaxRuns == 2
MaxMonths == 2
MaxTradesPerMonth == 2
MaxSeed == 1
Precision == 12
GridBits == 4
RngBits == 4
MaxDays == 3
MaxOpen == 4
MaxBars == 17
MaxHold == 2
MaxOrders == 1

\* --------------------------------------------------- float arithmetic
RECURSIVE Pow2(_)
Pow2(n) == IF n = 0 THEN 1 ELSE 2 * Pow2(n - 1)

Grid == Pow2(GridBits)

Abs(x) == IF x < 0 THEN -x ELSE x

\* The first magnitude, in units, that no longer fits in Precision bits.
Significand == Pow2(Precision)

\* The spacing of the floats around a magnitude of m units: 1 unit while m
\* fits in Precision bits, doubling with every further bit.
RECURSIVE Quantum(_)
Quantum(m) == IF m < Significand THEN 1 ELSE 2 * Quantum(m \div 2)

\* The float nearest to the rational n / d units (d > 0), ties to even.
Fl(n, d) ==
    LET a == Abs(n)
        q == Quantum(a \div d)
        k == a \div (d * q)
        rem == a % (d * q)
        up == \/ 2 * rem > d * q
              \/ 2 * rem = d * q /\ k % 2 = 1
        mag == (IF up THEN k + 1 ELSE k) * q
    IN  IF n < 0 THEN -mag ELSE mag

\* x * (f[1] / f[2]), x + y and x - y in float arithmetic.
FMul(x, f) == Fl(x * f[1], f[2])
FAdd(x, y) == Fl(x + y, 1)
FSub(x, y) == Fl(x - y, 1)

\* An integer number of dollars as a float.
Dollars(n) == Fl(n * Grid, 1)

\* --------------------------------------------- numpy's global generator
\* np.random is one process-wide pseudo-random stream: a state that every
\* draw advances, and that a seed fixes.  Modelled as a full-period linear
\* congruential generator over RngMod states.
RngMod == Pow2(RngBits)
RngNext(s) == (5 * s + 3) % RngMod

\* np.random.random(): a uniform value in [0, 1), here in hundredths.
Uniform(s) == (s * 100) \div RngMod

Seeds == 0 .. MaxSeed

\* --------------------------------- mmm_complete_backtest.py: the config
INITIAL_CAPITAL == 50000
POSITION_SIZE == <<1, 4>>
WIN_RATE == 85
PREMIUM == <<1, 20>>
TAKE_PROFIT == <<1, 2>>
\* the literal 0.3 of the loss branch
LOSS_MULTIPLIER == <<3, 10>>

\* The module-level constants and the two loop literals (36 months of 4
\* trades) as one immutable configuration.  The scenario table of main()
\* varies the win rate and the premium; the choices below add the ends of
\* each range.
Configs ==
    [ initial_capital : {INITIAL_CAPITAL},
      position_fraction : {POSITION_SIZE, <<1, 1>>},
      win_probability : {0, 50, WIN_RATE, 100},
      premium_fraction : {<<1, 100000>>, PREMIUM},
      take_profit_fraction : {TAKE_PROFIT, <<1, 1>>},
      trades_per_month : 0 .. MaxTradesPerMonth,
      months : 0 .. MaxMonths ]

VARIABLES
    script,     \* which script the behaviour runs
    config,     \* the module-level configuration
    rng,        \* state of numpy's global generator
    seed,       \* the state the generator had when the call began
    pc,         \* position in run_simulation
    runs,       \* the argument of run_simulation
    run,        \* index of the current run
    month,      \* index of the current month
    trade,      \* index of the current trade of the month
    capital,    \* local `capital`
    position,   \* local `position`
    heap,       \* the list objects created so far
    monthly,    \* local `monthly`: a reference into heap
    results,    \* local `results`: tuples <<capital, reference>>
    trail,      \* capital at the start of the run and after each trade
    prior,      \* the earlier calls: what each was given and what it returned
    days,       \* simulate_option_sell: iterations of its loop over hist
    day,        \* simulate_option_sell: iterations done
    position_value, \* simulate_option_sell: local `position_value`
    trades,     \* simulate_option_sell: local `trades`
    ib_available,   \* bot: IB_ASYNC_AVAILABLE
    connected,      \* bot: client.connected
    account_value,  \* bot: client.account_value
    client_positions, \* bot: client.positions
    bot_positions,  \* bot: bot.positions
    shared,         \* bot: bot.positions and client.positions are one list
    cash,           \* bot: bot.cash
    ticker,         \* bot: index into the watchlist during a scan
    opportunities,  \* bot: local `opportunities` of scan_opportunities
    exc,            \* bot: the exception on its way out of run
    cycle,          \* bot: the steps the current cycle has taken
    last,           \* bot: what the last step called, returned and printed
    account,        \* bot: the broker's last answer to accountSummaryAsync
    hold_days,      \* rsi: RSIStrategy.hold_days
    bars,           \* rsi: len(self.data)
    rsi,            \* rsi: self.rsi[-1] of the current bar
    in_position,    \* rsi: bool(self.position)
    entry_bar,      \* rsi: self.entry_bar
    order,          \* rsi: the order next() placed on the current bar
    signal          \* rsi: what next() did on the current bar

complete_vars == <<config, runs, run, month, trade, position, heap, monthly,
                   results, trail, prior>>
option_vars == <<days, day, position_value, trades>>
bot_vars == <<ib_available, connected, account_value, client_positions,
              bot_positions, shared, cash, ticker, opportunities, exc, cycle, last,
              account>>
rsi_vars == <<hold_days, bars, rsi, in_position, entry_bar, order, signal>>

vars == <<script, rng, seed, pc, capital, complete_vars, option_vars, bot_vars,
          rsi_vars>>

\* ---------------------------------------------------------- one trade
\* Position sized from the starting capital instead of the current one.
Position_FixedBase(c, cfg) == FMul(Dollars(cfg.initial_capital), cfg.position_fraction)

\* position = capital * POSITION_SIZE
Position(c, cfg) == FMul(c, cfg.position_fraction)

\* TradeUpdate with the outcome test the wrong way round.
TradeUpdate_Inverted(c, u, cfg) ==
    LET pos == FMul(c, cfg.position_fraction)
    IN  IF u >= cfg.win_probability
        THEN FAdd(c, FMul(FMul(pos, cfg.premium_fraction), cfg.take_profit_fraction))
        ELSE FSub(c, FMul(FMul(pos, cfg.premium_fraction), LOSS_MULTIPLIER))

\* TradeUpdate whose loss branch reuses the take-profit fraction.
TradeUpdate_LossUsesTakeProfit(c, u, cfg) ==
    LET pos == FMul(c, cfg.position_fraction)
    IN  IF u < cfg.win_probability
        THEN FAdd(c, FMul(FMul(pos, cfg.premium_fraction), cfg.take_profit_fraction))
        ELSE FSub(c, FMul(FMul(pos, cfg.premium_fraction), cfg.take_profit_fraction))

\* TradeUpdate whose loss multiplier is written as a percentage (30, not 0.3).
TradeUpdate_LossInPercent(c, u, cfg) ==
    LET pos == FMul(c, cfg.position_fraction)
    IN  IF u < cfg.win_probability
        THEN FAdd(c, FMul(FMul(pos, cfg.premium_fraction), cfg.take_profit_fraction))
        ELSE FSub(c, FMul(FMul(pos, cfg.premium_fraction), <<30, 1>>))

\* The capital after one trade that drew u.
TradeUpdate(c, u, cfg) ==
    LET pos == Position(c, cfg)
    IN  IF u < cfg.win_probability
        THEN FAdd(c, FMul(FMul(pos, cfg.premium_fraction), cfg.take_profit_fraction))
        ELSE FSub(c, FMul(FMul(pos, cfg.premium_fraction), LOSS_MULTIPLIER))

\* The list a reference denotes.
Deref(h, ref) == h[ref]

\* ------------------------------------------------------------- actions
\* The configuration the module-level constants and loop literals of
\* mmm_complete_backtest.py spell out, with the loops cut to the bounds.
SourceConfig ==
    [ initial_capital |-> INITIAL_CAPITAL,
      position_fraction |-> POSITION_SIZE,
      win_probability |-> WIN_RATE,
      premium_fraction |-> PREMIUM,
      take_profit_fraction |-> TAKE_PROFIT,
      trades_per_month |-> MaxTradesPerMonth,
      months |-> MaxMonths ]

\* ------------------------------------------- mattyice_ibkr_bot.py: values
TICKERS == <<"TQQQ", "SOXL", "NVDL", "TSLL", "TNA", "QQQ">>
BOT_PROFIT_TARGET == <<1, 20>>
BOT_POSITION_SIZE == <<1, 4>>
MAX_POSITIONS == 4
BOT_INITIAL_CAPITAL == 50000
\* the literal 0.95 of execute_trade ("5% OTM")
OTM == <<19, 20>>

\* What the last step of the bot was: the method that ran, the collaborator
\* call it made ("none" if it made none), whether that call failed, what
\* the method returned and whether it printed an error message.
StepOf(op, call, failed, ret, logged) ==
    [op |-> op, call |-> call, failed |-> failed, ret |-> ret, logged |-> logged]
NoStep == StepOf("none", "none", FALSE, "none", FALSE)

\* An item of the account summary: its tag and its value, a string that
\* float() either parses to num or rejects.
Item(tag, ok, num) == [tag |-> tag, ok |-> ok, num |-> num]
Summaries ==
    {<<Item("TotalCashValue", TRUE, Dollars(1000))>>,
     <<Item("NetLiquidation", FALSE, 0)>>,
     <<Item("TotalCashValue", TRUE, Dollars(1000)),
       Item("NetLiquidation", TRUE, Dollars(60000))>>,
     <<Item("NetLiquidation", TRUE, Dollars(40000)),
       Item("NetLiquidation", TRUE, Dollars(60000))>>}
\* What accountSummaryAsync does: it raises, or returns a summary.
Replies == {[raised |-> TRUE, items |-> <<>>]}
           \cup {[raised |-> FALSE, items |-> i] : i \in Summaries}
NoReply == [raised |-> FALSE, items |-> <<>>]

\* A position as the broker reports it, and as execute_trade records it.
BrokerPosition == [ticker |-> "broker", strike |-> 0, entry_price |-> 0]
RECURSIVE Repeat(_, _)
Repeat(x, n) == IF n = 0 THEN <<>> ELSE <<x>> \o Repeat(x, n - 1)
\* The opportunities a caller hands to execute_trade.
Opportunities == {[ticker |-> TICKERS[1], price |-> Dollars(40)]}

\* ----------------------------------------------- rsi_backtest.py: values
RSI_PERIOD == 14
RSI_THRESHOLD == 35
\* The values an RSI takes: NaN, or a number below, at or above the
\* threshold.
NaN == -1
RsiValues == {NaN, RSI_THRESHOLD - 15, RSI_THRESHOLD, RSI_THRESHOLD + 15}

Init ==
    /\ \/ script = "complete" /\ config \in Configs /\ ib_available = FALSE
          /\ hold_days = 0
       \/ script = "option_selling" /\ config = SourceConfig /\ ib_available = FALSE
          /\ hold_days = 0
       \/ script = "bot" /\ config = SourceConfig /\ ib_available \in BOOLEAN
          /\ hold_days = 0
       \/ script = "rsi" /\ config = SourceConfig /\ ib_available = FALSE
          /\ hold_days \in 1 .. MaxHold
    /\ connected = FALSE
    /\ account_value = 0
    /\ client_positions = <<>>
    /\ bot_positions = <<>>
    /\ shared = FALSE
    /\ cash = Dollars(BOT_INITIAL_CAPITAL)
    /\ ticker = 0
    /\ opportunities = <<>>
    /\ exc = "none"
    /\ cycle = <<>>
    /\ last = NoStep
    /\ account = NoReply
    /\ bars = 0
    /\ rsi = NaN
    /\ in_position = FALSE
    /\ entry_bar = 0
    /\ order = "none"
    /\ signal = "none"
    /\ days = 0
    /\ day = 0
    /\ position_value = 0
    /\ trades = <<>>
    /\ rng = 0
    /\ seed = 0
    /\ prior = <<>>
    /\ pc = "idle"
    /\ runs = 0
    /\ run = 0
    /\ month = 0
    /\ trade = 0
    /\ capital = 0
    /\ position = 0
    /\ heap = <<>>
    /\ monthly = 0
    /\ results = <<>>
    /\ trail = <<>>

\* What the caller holds once run_simulation has returned: per run, the
\* final capital and the contents of its monthly list.
Returned(res, h) == [i \in 1 .. Len(res) |-> <<res[i][1], Deref(h, res[i][2])>>]

\* Call that leaves out `results = []`.
Call_KeepsResults(s, n) ==
    /\ script = "complete"
    /\ \/ pc = "idle"
       \/ pc = "returned" /\ prior = <<>> /\ n = runs
    /\ prior' = IF pc = "returned"
                THEN <<[seed |-> seed, runs |-> runs, results |-> Returned(results, heap)]>>
                ELSE prior
    /\ rng' = s
    /\ seed' = s
    /\ pc' = "runs"
    /\ runs' = n
    /\ run' = 0
    /\ UNCHANGED <<script, config, month, trade, capital, position, heap,
                   monthly, trail, results, option_vars, bot_vars, rsi_vars>>

\* The caller seeds the generator with s and calls run_simulation(n), which
\* begins with results = [].  A behaviour holds at most two calls, the
\* second with the run count of the first and any seed; the outcome of the
\* first is kept in `prior` when the second begins.
Call(s, n) ==
    /\ script = "complete"
    /\ \/ pc = "idle"
       \/ pc = "returned" /\ prior = <<>> /\ n = runs
    /\ prior' = IF pc = "returned"
                THEN <<[seed |-> seed, runs |-> runs, results |-> Returned(results, heap)]>>
                ELSE prior
    /\ rng' = s
    /\ seed' = s
    /\ pc' = "runs"
    /\ runs' = n
    /\ run' = 0
    /\ results' = <<>>
    /\ UNCHANGED <<script, config, month, trade, capital, position, heap,
                   monthly, trail,
                   option_vars, bot_vars, rsi_vars>>

\* BeginRun with `monthly = []` hoisted out of the loop over the runs.
BeginRun_SharedList ==
    /\ pc = "runs"
    /\ run < runs
    /\ capital' = Dollars(config.initial_capital)
    /\ heap' = IF run = 0 THEN Append(heap, <<>>) ELSE heap
    /\ monthly' = IF run = 0 THEN Len(heap) + 1 ELSE monthly
    /\ month' = 0
    /\ trail' = <<Dollars(config.initial_capital)>>
    /\ pc' = "months"
    /\ UNCHANGED <<script, config, rng, seed, runs, run, trade, position, results, prior,
                   option_vars, bot_vars, rsi_vars>>

\* for _ in range(runs): capital = INITIAL_CAPITAL; monthly = []
BeginRun ==
    /\ pc = "runs"
    /\ run < runs
    /\ capital' = Dollars(config.initial_capital)
    /\ heap' = Append(heap, <<>>)
    /\ monthly' = Len(heap) + 1
    /\ month' = 0
    /\ trail' = <<Dollars(config.initial_capital)>>
    /\ pc' = "months"
    /\ UNCHANGED <<script, config, rng, seed, runs, run, trade, position, results, prior,
                   option_vars, bot_vars, rsi_vars>>

\* for month in range(36): the next month begins
BeginMonth ==
    /\ pc = "months"
    /\ month < config.months
    /\ trade' = 0
    /\ pc' = "trades"
    /\ UNCHANGED <<script, config, rng, seed, runs, run, month, capital, position,
                   heap, monthly, results, trail, prior,
                   option_vars, bot_vars, rsi_vars>>

\* Trade with the append of the month indented into the trade loop.
Trade_AppendsEachTrade ==
    /\ pc = "trades"
    /\ trade < config.trades_per_month
    /\ position' = Position(capital, config)
    /\ rng' = RngNext(rng)
    /\ capital' = TradeUpdate(capital, Uniform(rng'), config)
    /\ trade' = trade + 1
    /\ trail' = Append(trail, capital')
    /\ heap' = [heap EXCEPT ![monthly] = Append(@, capital')]
    /\ UNCHANGED <<script, config, seed, pc, runs, run, month, monthly, results, prior,
                   option_vars, bot_vars, rsi_vars>>

\* for _ in range(4): one trade
Trade ==
    /\ pc = "trades"
    /\ trade < config.trades_per_month
    /\ position' = Position(capital, config)
    /\ rng' = RngNext(rng)
    /\ capital' = TradeUpdate(capital, Uniform(rng'), config)
    /\ trade' = trade + 1
    /\ trail' = Append(trail, capital')
    /\ UNCHANGED <<script, config, seed, pc, runs, run, month, heap, monthly, results, prior,
                   option_vars, bot_vars, rsi_vars>>

\* EndMonth that records a month only if it held a trade.
EndMonth_SkipsEmptyMonth ==
    /\ pc = "trades"
    /\ trade = config.trades_per_month
    /\ heap' = IF trade > 0 THEN [heap EXCEPT ![monthly] = Append(@, capital)] ELSE heap
    /\ month' = month + 1
    /\ pc' = "months"
    /\ UNCHANGED <<script, config, rng, seed, runs, run, trade, capital, position,
                   monthly, results, trail, prior, option_vars, bot_vars, rsi_vars>>

\* monthly.append(capital), after the month's trades
EndMonth ==
    /\ pc = "trades"
    /\ trade = config.trades_per_month
    /\ heap' = [heap EXCEPT ![monthly] = Append(@, capital)]
    /\ month' = month + 1
    /\ pc' = "months"
    /\ UNCHANGED <<script, config, rng, seed, runs, run, trade, capital, position,
                   monthly, results, trail, prior,
                   option_vars, bot_vars, rsi_vars>>

\* results.append((capital, monthly)), after the last month
EndRun ==
    /\ pc = "months"
    /\ month = config.months
    /\ results' = Append(results, <<capital, monthly>>)
    /\ run' = run + 1
    /\ pc' = "runs"
    /\ UNCHANGED <<script, config, rng, seed, runs, month, trade, capital, position,
                   heap, monthly, trail, prior,
                   option_vars, bot_vars, rsi_vars>>

\* return results
Return ==
    /\ pc = "runs"
    /\ run = runs
    /\ pc' = "returned"
    /\ UNCHANGED <<script, config, rng, seed, runs, run, month, trade, capital,
                   position, heap, monthly, results, trail, prior,
                   option_vars, bot_vars, rsi_vars>>

\* --------------------- mmm_option_selling_backtest.py: simulate_option_sell
OS_INITIAL_CAPITAL == 50000
OS_POSITION_SIZE == <<1, 4>>
\* MIN_RETURN = 0.02, in ten-thousandths
MIN_RETURN == 200
\* the literal 0.70 of the outcome test, in hundredths
OS_WIN_RATE == 70
\* the literal 0.05 of the loss branch ("assume 5% ITM")
OS_ITM == <<1, 20>>

\* estimated_iv = np.random.uniform(0.4, 0.8), in hundredths
EstimatedIv(u) == 40 + (40 * u) \div 100

\* premium_pct = estimated_iv * np.sqrt(DTE_TARGET/365) * 0.3, in
\* ten-thousandths: sqrt(30/365) * 0.3 = 0.0860
PremiumPct(iv) == (iv * 86) \div 10

\* position_value = capital * POSITION_SIZE
PositionValue(c) == FMul(c, OS_POSITION_SIZE)

\* profit of one simulated sale
Profit(pv, pct, outcome) ==
    LET premium == FMul(pv, <<pct, 10000>>)
    IN  IF outcome < OS_WIN_RATE
        THEN premium
        ELSE -FSub(premium, FMul(pv, OS_ITM))

\* simulate_option_sell(ticker) is entered with the generator seeded with s;
\* the price history holds n loop iterations, or is too short to use
\* (len(hist) < 100: return None).
OSStart(s, n, enough) ==
    /\ script = "option_selling"
    /\ pc = "idle"
    /\ rng' = s
    /\ seed' = s
    /\ IF enough
       THEN /\ pc' = "days"
            /\ days' = n
            /\ capital' = Dollars(OS_INITIAL_CAPITAL)
            /\ position_value' = FMul(Dollars(OS_INITIAL_CAPITAL), OS_POSITION_SIZE)
       ELSE /\ pc' = "no_data"
            /\ UNCHANGED <<days, capital, position_value>>
    /\ day' = 0
    /\ trades' = <<>>
    /\ UNCHANGED <<script, complete_vars, bot_vars, rsi_vars>>

\* hist['Close'].iloc[i] >= hist['Close'].iloc[i-1]: continue
OSGreenDay ==
    /\ pc = "days"
    /\ day < days
    /\ day' = day + 1
    /\ UNCHANGED <<script, rng, seed, pc, capital, complete_vars, days,
                   position_value, trades, bot_vars, rsi_vars>>

\* a red day: one simulated sale, unless the premium is below MIN_RETURN
OSRedDay ==
    /\ pc = "days"
    /\ day < days
    /\ LET r1 == RngNext(rng)
           r2 == RngNext(r1)
           pct == PremiumPct(EstimatedIv(Uniform(r1)))
           profit == Profit(position_value, pct, Uniform(r2))
       IN  IF pct < MIN_RETURN
           THEN /\ rng' = r1
                /\ UNCHANGED <<capital, position_value, trades>>
           ELSE /\ rng' = r2
                /\ capital' = FAdd(capital, profit)
                /\ trades' = Append(trades,
                                    [premium |-> FMul(position_value, <<pct, 10000>>),
                                     profit |-> profit])
                /\ position_value' = PositionValue(capital')
    /\ day' = day + 1
    /\ UNCHANGED <<script, seed, pc, complete_vars, days, bot_vars, rsi_vars>>

\* the loop over hist is over: return the summary
OSReturn ==
    /\ pc = "days"
    /\ day = days
    /\ pc' = "os_returned"
    /\ UNCHANGED <<script, rng, seed, capital, complete_vars, option_vars, bot_vars, rsi_vars>>

\* ------------------------------------------ mattyice_ibkr_bot.py: IBKRClient
\* What ends an await from outside: Ctrl-C, or the cancellation asyncio.run
\* turns it into.  Neither is an Exception, so no `except Exception` of the
\* client catches it.
Interrupts == {"KeyboardInterrupt", "CancelledError"}

\* The index of the first NetLiquidation item of a summary, 0 if none.
FirstNetLiquidation(items) ==
    IF \E k \in 1 .. Len(items) : items[k].tag = "NetLiquidation"
    THEN CHOOSE k \in 1 .. Len(items) :
            /\ items[k].tag = "NetLiquidation"
            /\ \A j \in 1 .. k - 1 : items[j].tag # "NetLiquidation"
    ELSE 0

\* The last line of get_account_value: the fallback.  av is what
\* self.account_value holds afterwards.
Fallback(av, called, logged) ==
    [result |-> Dollars(BOT_INITIAL_CAPITAL), account_value |-> av,
     called |-> called, logged |-> logged, live |-> FALSE]

GetAccountValue_StoresFallback(conn, av, r) ==
    IF ~conn THEN Fallback(av, FALSE, FALSE)
    ELSE IF r.raised THEN Fallback(Dollars(BOT_INITIAL_CAPITAL), TRUE, TRUE)
    ELSE LET k == FirstNetLiquidation(r.items)
         IN  IF k = 0 THEN Fallback(av, TRUE, FALSE)
             ELSE IF ~r.items[k].ok THEN Fallback(av, TRUE, TRUE)
             ELSE [result |-> Fl(r.items[k].num, 1),
                   account_value |-> Fl(r.items[k].num, 1),
                   called |-> TRUE, logged |-> FALSE, live |-> TRUE]

\* get_account_value on a client whose flag is conn and whose account_value
\* is av, when the broker answers r: the value returned, the account_value
\* left behind, whether the broker was called and whether an error printed.
GetAccountValue(conn, av, r) ==
    IF ~conn THEN Fallback(av, FALSE, FALSE)
    ELSE IF r.raised THEN Fallback(av, TRUE, TRUE)
    ELSE LET k == FirstNetLiquidation(r.items)
         IN  IF k = 0 THEN Fallback(av, TRUE, FALSE)
             ELSE IF ~r.items[k].ok THEN Fallback(av, TRUE, TRUE)
             ELSE [result |-> Fl(r.items[k].num, 1),
                   account_value |-> Fl(r.items[k].num, 1),
                   called |-> TRUE, logged |-> FALSE, live |-> TRUE]

PlaceOrder_SimulatedFill(conn, outcome) ==
    IF ~conn THEN [result |-> "trade", call |-> "none", logged |-> FALSE]
    ELSE IF outcome = "ok"
    THEN [result |-> "trade", call |-> "placeOrderAsync", logged |-> FALSE]
    ELSE [result |-> "None", call |-> "placeOrderAsync", logged |-> TRUE]

\* place_order: "trade" for the handle placeOrderAsync returned, else "None".
PlaceOrder(conn, outcome) ==
    IF ~conn THEN [result |-> "None", call |-> "none", logged |-> FALSE]
    ELSE IF outcome = "ok"
    THEN [result |-> "trade", call |-> "placeOrderAsync", logged |-> FALSE]
    ELSE [result |-> "None", call |-> "placeOrderAsync", logged |-> TRUE]

\* run, line 314: connect, outside the try.
BotConnect(outcome) ==
    /\ script = "bot" /\ pc = "idle"
    /\ IF ~ib_available
       THEN /\ outcome = "ok"
            /\ last' = StepOf("connect", "none", FALSE, "False", FALSE)
            /\ pc' = "bot_account"
            /\ UNCHANGED <<connected, exc>>
       ELSE IF outcome = "ok"
       THEN /\ connected' = TRUE
            /\ last' = StepOf("connect", "connectAsync", FALSE, "True", FALSE)
            /\ pc' = "bot_account"
            /\ UNCHANGED exc
       ELSE IF outcome = "raise"
       THEN /\ last' = StepOf("connect", "connectAsync", TRUE, "False", TRUE)
            /\ pc' = "bot_account"
            /\ UNCHANGED <<connected, exc>>
       ELSE /\ outcome \in Interrupts
            /\ exc' = outcome
            /\ last' = StepOf("connect", "connectAsync", FALSE, "none", FALSE)
            /\ pc' = "bot_stopped"
            /\ UNCHANGED connected
    /\ UNCHANGED <<script, rng, seed, capital, complete_vars, option_vars,
                   rsi_vars, ib_available, account_value, client_positions,
                   bot_positions, shared, cash, ticker, opportunities, cycle,
                   account>>

\* run, line 319: self.cash = await self.client.get_account_value()
BotAccountValue(r, outcome) ==
    /\ script = "bot" /\ pc = "bot_account"
    /\ IF connected /\ outcome \in Interrupts
       THEN /\ exc' = outcome
            /\ pc' = "bot_finally"
            /\ last' = StepOf("get_account_value", "accountSummaryAsync", FALSE,
                              "none", FALSE)
            /\ UNCHANGED <<cash, account_value, account>>
       ELSE LET g == GetAccountValue(connected, account_value, r)
            IN  /\ outcome = "ok"
                /\ cash' = g.result
                /\ account_value' = g.account_value
                /\ account' = IF g.called THEN r ELSE account
                /\ last' = StepOf("get_account_value",
                                  IF g.called THEN "accountSummaryAsync" ELSE "none",
                                  g.called /\ r.raised,
                                  IF g.live THEN "live" ELSE "fallback", g.logged)
                /\ pc' = "bot_positions"
                /\ UNCHANGED exc
    /\ cycle' = <<"account">>
    /\ UNCHANGED <<script, rng, seed, capital, complete_vars, option_vars,
                   rsi_vars, ib_available, connected, client_positions,
                   bot_positions, shared, ticker, opportunities>>

\* run, line 323: self.positions = await self.client.get_positions()
BotPositions(outcome, n) ==
    /\ script = "bot" /\ pc = "bot_positions"
    /\ IF ~connected
       THEN /\ outcome = "ok" /\ n = 0
            /\ bot_positions' = <<>>
            /\ shared' = FALSE
            /\ last' = StepOf("get_positions", "none", FALSE, "empty", FALSE)
            /\ pc' = "bot_exits"
            /\ UNCHANGED <<client_positions, exc>>
       ELSE IF outcome = "ok"
       THEN /\ client_positions' = Repeat(BrokerPosition, n)
            /\ bot_positions' = client_positions'
            /\ shared' = TRUE
            /\ last' = StepOf("get_positions", "positionsAsync", FALSE, "list", FALSE)
            /\ pc' = "bot_exits"
            /\ UNCHANGED exc
       ELSE IF outcome = "raise"
       THEN /\ n = 0
            /\ bot_positions' = <<>>
            /\ shared' = FALSE
            /\ last' = StepOf("get_positions", "positionsAsync", TRUE, "empty", TRUE)
            /\ pc' = "bot_exits"
            /\ UNCHANGED <<client_positions, exc>>
       ELSE /\ outcome \in Interrupts /\ n = 0
            /\ exc' = outcome
            /\ last' = StepOf("get_positions", "positionsAsync", FALSE, "none", FALSE)
            /\ pc' = "bot_finally"
            /\ UNCHANGED <<client_positions, bot_positions, shared>>
    /\ cycle' = Append(cycle, "positions")
    /\ UNCHANGED <<script, rng, seed, capital, complete_vars, option_vars,
                   rsi_vars, ib_available, connected, account_value, cash, ticker,
                   opportunities, account>>

\* run, line 327: check_exits, a placeholder that does nothing.
BotCheckExits ==
    /\ script = "bot" /\ pc = "bot_exits"
    /\ cycle' = Append(cycle, "exits")
    /\ last' = StepOf("check_exits", "none", FALSE, "None", FALSE)
    /\ pc' = "bot_gate"
    /\ UNCHANGED <<script, rng, seed, capital, complete_vars, option_vars,
                   rsi_vars, ib_available, connected, account_value,
                   client_positions, bot_positions, shared, cash, ticker,
                   opportunities, exc, account>>

BotBeginScan_AtMost ==
    /\ script = "bot" /\ pc = "bot_gate"
    /\ Len(bot_positions) <= MAX_POSITIONS
    /\ opportunities' = <<>>
    /\ ticker' = 1
    /\ cycle' = Append(cycle, "scan")
    /\ pc' = "bot_scan"
    /\ UNCHANGED <<script, rng, seed, capital, complete_vars, option_vars,
                   rsi_vars, ib_available, connected, account_value,
                   client_positions, bot_positions, shared, cash, exc, last,
                   account>>

\* run, lines 330-331: scan only while under MAX_POSITIONS.
BotBeginScan ==
    /\ script = "bot" /\ pc = "bot_gate"
    /\ Len(bot_positions) < MAX_POSITIONS
    /\ opportunities' = <<>>
    /\ ticker' = 1
    /\ cycle' = Append(cycle, "scan")
    /\ pc' = "bot_scan"
    /\ UNCHANGED <<script, rng, seed, capital, complete_vars, option_vars,
                   rsi_vars, ib_available, connected, account_value,
                   client_positions, bot_positions, shared, cash, exc, last,
                   account>>

BotSkipScan ==
    /\ script = "bot" /\ pc = "bot_gate"
    /\ ~(Len(bot_positions) < MAX_POSITIONS)
    /\ pc' = "bot_sleep"
    /\ UNCHANGED <<script, rng, seed, capital, complete_vars, option_vars,
                   rsi_vars, ib_available, connected, account_value,
                   client_positions, bot_positions, shared, cash, ticker,
                   opportunities, exc, cycle, last, account>>

\* One iteration of the loop of scan_opportunities.  get_stock_data either
\* raises inside its try (it prints and returns None), finds too little
\* history (None) or returns the indicators.  With indicators, line 238
\* fetches ticker + '-previous-close' and compares the price with the
\* answer: None or a dict, so the `<` raises TypeError whatever the second
\* fetch did, and lines 239-254 are never reached.  Nothing on the way out
\* catches a TypeError.
Fetches == {"raise", "empty", "data"}
BotScanTicker(first, second) ==
    /\ script = "bot" /\ pc = "bot_scan"
    /\ ticker \in 1 .. Len(TICKERS)
    /\ IF first # "data"
       THEN /\ second = "empty"
            /\ ticker' = ticker + 1
            /\ last' = StepOf("scan", "history", first = "raise", "None",
                              first = "raise")
            /\ UNCHANGED <<pc, exc>>
       ELSE /\ exc' = "TypeError"
            /\ pc' = "bot_finally"
            /\ last' = StepOf("scan", "history", second = "raise", "none",
                              second = "raise")
            /\ UNCHANGED ticker
    /\ UNCHANGED <<script, rng, seed, capital, complete_vars, option_vars,
                   rsi_vars, ib_available, connected, account_value,
                   client_positions, bot_positions, shared, cash, opportunities,
                   cycle, account>>

\* run, lines 332-338: the scan returned; report and go to sleep.
BotScanDone ==
    /\ script = "bot" /\ pc = "bot_scan"
    /\ ticker = Len(TICKERS) + 1
    /\ last' = StepOf("scan", "none", FALSE, "list", FALSE)
    /\ pc' = "bot_sleep"
    /\ UNCHANGED <<script, rng, seed, capital, complete_vars, option_vars,
                   rsi_vars, ib_available, connected, account_value,
                   client_positions, bot_positions, shared, cash, ticker,
                   opportunities, exc, cycle, account>>

\* run, line 339: await asyncio.sleep(3600), then the next cycle.
BotSleep(outcome) ==
    /\ script = "bot" /\ pc = "bot_sleep"
    /\ IF outcome = "ok"
       THEN /\ pc' = "bot_account"
            /\ cycle' = <<>>
            /\ UNCHANGED exc
       ELSE /\ outcome \in Interrupts
            /\ exc' = outcome
            /\ pc' = "bot_finally"
            /\ UNCHANGED cycle
    /\ last' = StepOf("sleep", "none", FALSE, "None", FALSE)
    /\ UNCHANGED <<script, rng, seed, capital, complete_vars, option_vars,
                   rsi_vars, ib_available, connected, account_value,
                   client_positions, bot_positions, shared, cash, ticker,
                   opportunities, account>>

\* disconnect, lines 147-151, on a client whose flag is conn: the flag
\* afterwards and the broker call made.
Disconnect(conn, outcome) ==
    IF ~conn THEN [connected |-> conn, call |-> "none", raised |-> FALSE]
    ELSE IF outcome = "ok"
    THEN [connected |-> FALSE, call |-> "disconnectAsync", raised |-> FALSE]
    ELSE [connected |-> conn, call |-> "disconnectAsync", raised |-> TRUE]

\* run, lines 341-345: the except clause takes a KeyboardInterrupt, and the
\* finally clause disconnects whatever ended the loop.
BotFinally(outcome) ==
    /\ script = "bot" /\ pc = "bot_finally"
    /\ connected \/ outcome = "ok"
    /\ LET d == Disconnect(connected, outcome)
       IN  /\ connected' = d.connected
           /\ last' = StepOf("disconnect", d.call, d.raised, "None", FALSE)
           /\ exc' = IF d.raised THEN "DisconnectError"
                     ELSE IF exc = "KeyboardInterrupt" THEN "none"
                     ELSE exc
    /\ pc' = "bot_stopped"
    /\ UNCHANGED <<script, rng, seed, capital, complete_vars, option_vars,
                   rsi_vars, ib_available, account_value, client_positions,
                   bot_positions, shared, cash, ticker, opportunities, cycle,
                   account>>

\* execute_trade, lines 258-299.  run never calls it; it is the bot's
\* operation for a caller that holds an opportunity, before run or while
\* run sleeps.  last.call names the broker call of place_order.
BotExecuteTrade(opp, r, outcome) ==
    /\ script = "bot" /\ pc \in {"idle", "bot_sleep"}
    /\ Len(SelectSeq(bot_positions, LAMBDA p : p # BrokerPosition)) < MaxOrders
    /\ LET g == GetAccountValue(connected, account_value, r)
           value == FMul(g.result, BOT_POSITION_SIZE)
           strike == FMul(opp.price, OTM)
           estimated_premium == FMul(value, BOT_PROFIT_TARGET)
           result == PlaceOrder(connected, outcome)
           record == [ticker |-> opp.ticker, strike |-> strike,
                      entry_price |-> estimated_premium]
       IN  /\ account_value' = g.account_value
           /\ account' = IF g.called THEN r ELSE account
           /\ bot_positions' = IF result.result # "None"
                               THEN Append(bot_positions, record)
                               ELSE bot_positions
           /\ client_positions' = IF shared THEN bot_positions'
                                  ELSE client_positions
           /\ last' = StepOf("execute_trade", result.call,
                             result.call # "none" /\ result.result = "None",
                             result.result, result.logged)
    /\ UNCHANGED <<script, rng, seed, pc, capital, complete_vars, option_vars,
                   rsi_vars, ib_available, connected, shared, cash, ticker,
                   opportunities, exc, cycle>>

\* ------------------------------------------- rsi_backtest.py: RSIStrategy
StrategyNext_BuysAtThreshold(n, r, pos, entry, hold) ==
    IF n < RSI_PERIOD \/ r = NaN
    THEN [signal |-> "skip", entry_bar |-> entry]
    ELSE IF ~pos /\ r <= RSI_THRESHOLD
    THEN [signal |-> "buy", entry_bar |-> n]
    ELSE IF pos /\ n - entry >= hold
    THEN [signal |-> "close", entry_bar |-> entry]
    ELSE [signal |-> "none", entry_bar |-> entry]

\* RSIStrategy.next on a bar where len(self.data) is n, self.rsi[-1] is r,
\* bool(self.position) is pos, self.entry_bar is entry and self.hold_days
\* is hold: what it does ("skip" for an early return) and the entry_bar it
\* leaves.
StrategyNext(n, r, pos, entry, hold) ==
    IF n < RSI_PERIOD \/ r = NaN
    THEN [signal |-> "skip", entry_bar |-> entry]
    ELSE IF ~pos /\ r < RSI_THRESHOLD
    THEN [signal |-> "buy", entry_bar |-> n]
    ELSE IF pos /\ n - entry >= hold
    THEN [signal |-> "close", entry_bar |-> entry]
    ELSE [signal |-> "none", entry_bar |-> entry]

\* One bar of Backtest.run: the broker first settles the order of the bar
\* before (a buy opens the position unless the broker drops it, a close
\* ends it), the data grows by one bar, and next() runs.  entry_bar 0
\* stands for the None of init().
Bar(r, filled) ==
    /\ script = "rsi" /\ bars < MaxBars
    /\ order = "buy" \/ filled
    /\ LET pos == IF order = "buy" THEN in_position \/ filled
                  ELSE IF order = "close" THEN FALSE
                  ELSE in_position
           d == StrategyNext(bars + 1, r, pos, entry_bar, hold_days)
       IN  /\ bars' = bars + 1
           /\ rsi' = r
           /\ in_position' = pos
           /\ entry_bar' = d.entry_bar
           /\ signal' = d.signal
           /\ order' = IF d.signal \in {"buy", "close"} THEN d.signal ELSE "none"
    /\ pc' = "rsi_next"
    /\ UNCHANGED <<script, rng, seed, capital, complete_vars, option_vars,
                   bot_vars, hold_days>>

Next ==
    \/ \E s \in Seeds, n \in 1 .. MaxRuns : Call(s, n)
    \/ BeginRun
    \/ BeginMonth
    \/ Trade
    \/ EndMonth
    \/ EndRun
    \/ Return
    \/ \E s \in Seeds, n \in 0 .. MaxDays, enough \in BOOLEAN : OSStart(s, n, enough)
    \/ OSGreenDay
    \/ OSRedDay
    \/ OSReturn
    \/ \E o \in {"ok", "raise"} \cup Interrupts : BotConnect(o)
    \/ \E r \in Replies, o \in {"ok"} \cup Interrupts : BotAccountValue(r, o)
    \/ \E o \in {"ok", "raise"} \cup Interrupts, n \in 0 .. MaxOpen : BotPositions(o, n)
    \/ BotCheckExits
    \/ BotBeginScan
    \/ BotSkipScan
    \/ \E first \in Fetches, second \in Fetches : BotScanTicker(first, second)
    \/ BotScanDone
    \/ \E o \in {"ok"} \cup Interrupts : BotSleep(o)
    \/ \E o \in {"ok", "raise"} : BotFinally(o)
    \/ \E opp \in Opportunities, r \in Replies, o \in {"ok", "raise"} :
            BotExecuteTrade(opp, r, o)
    \/ \E r \in RsiValues, filled \in BOOLEAN : Bar(r, filled)

Spec == Init /\ [][Next]_vars

\* ================================================================ claims
\* The list of every run begun so far, finished or not.
Paths == {heap[i] : i \in 1 .. Len(heap)}

Complete == script = "complete"

NonDecreasing(p) == \A k \in 1 .. Len(p) - 1 : p[k] <= p[k + 1]
NonIncreasing(p) == \A k \in 1 .. Len(p) - 1 : p[k] >= p[k + 1]

Start == Dollars(config.initial_capital)

\* C1: with win_probability = 1 every monthly path is non-decreasing: each
\* appended value is >= the one before it, and the first is >= the initial
\* capital.
C1_WinsNeverDecrease ==
    (Complete /\ config.win_probability = 100) =>
        \A p \in Paths : NonDecreasing(p) /\ (Len(p) > 0 => p[1] >= Start)

\* A finished all-win run of two months whose path rose both times.
C1_Witness ==
    /\ Complete /\ config.win_probability = 100
    /\ pc = "returned"
    /\ \E p \in Paths : Len(p) = 2 /\ Start < p[1] /\ p[1] < p[2]

\* C2: with win_probability = 0 every monthly path is non-increasing: each
\* appended value is <= the one before it, and the first is <= the initial
\* capital.
C2_LossesNeverIncrease ==
    (Complete /\ config.win_probability = 0) =>
        \A p \in Paths : NonIncreasing(p) /\ (Len(p) > 0 => p[1] <= Start)

\* A finished all-loss run of two months whose path fell both times.
C2_Witness ==
    /\ Complete /\ config.win_probability = 0
    /\ pc = "returned"
    /\ \E p \in Paths : Len(p) = 2 /\ Start > p[1] /\ p[1] > p[2]

\* The final capital and the path of the i-th result.
Final(i) == results[i][1]
Path(i) == Deref(heap, results[i][2])

\* C3 as stated: with trades_per_month = 0 or months = 0 every run returns
\* a path of length 0 and a final capital equal to the initial capital.
C3_Original ==
    (Complete /\ (config.trades_per_month = 0 \/ config.months = 0)) =>
        \A i \in 1 .. Len(results) : Len(Path(i)) = 0 /\ Final(i) = Start

\* C3, amended: with months = 0 the path is empty; with trades_per_month = 0
\* the path still gets one entry per month, each equal to the initial
\* capital; in both cases the final capital equals the initial capital.
C3_Amended ==
    (Complete /\ (config.trades_per_month = 0 \/ config.months = 0)) =>
        \A i \in 1 .. Len(results) :
            /\ Final(i) = Start
            /\ Len(Path(i)) = config.months
            /\ \A k \in 1 .. Len(Path(i)) : Path(i)[k] = Start

\* A run without trades over two months has returned a path of two entries.
C3_Witness ==
    /\ Complete /\ config.trades_per_month = 0 /\ config.months = 2
    /\ pc = "returned"
    /\ Len(results) > 0 /\ Path(1) = <<Start, Start>> /\ Final(1) = Start

\* C4: run_simulation is a function of the config, the run count and the
\* random stream: a call returns what an earlier call with the same seed
\* and the same run count returned, and a call changes neither the
\* configuration nor any list but the one of the run in progress.
C4_Deterministic ==
    [][Complete =>
        /\ config' = config
        /\ \A i \in 1 .. Len(heap) : i # monthly' => heap'[i] = heap[i]
        /\ (pc' = "returned" /\ prior' # <<>>
                /\ prior'[1].seed = seed' /\ prior'[1].runs = runs')
            => Returned(results', heap') = prior'[1].results]_vars

\* A second call with the seed and the run count of the first has returned;
\* it held two runs whose outcome depended on the draws.
C4_Witness ==
    /\ Complete /\ pc = "returned" /\ prior # <<>>
    /\ prior[1].seed = seed /\ prior[1].runs = runs
    /\ runs = 2
    /\ Final(1) # Start /\ Final(2) # Final(1) /\ Len(Path(2)) = 2

\* The capital one winning trade adds to c.
Gain(c) ==
    FMul(FMul(FMul(c, config.position_fraction), config.premium_fraction),
         config.take_profit_fraction)

\* The capital one losing trade takes from c.
Loss(c) ==
    FMul(FMul(FMul(c, config.position_fraction), config.premium_fraction), <<3, 10>>)

\* C5 as stated: with win_probability = 1 and at least one trade, every
\* run's final capital is strictly greater than the initial capital.
C5_Original ==
    (Complete /\ config.win_probability = 100
        /\ config.trades_per_month * config.months > 0) =>
        \A i \in 1 .. Len(results) : Final(i) > Start

\* C5, amended: with win_probability = 1 and at least one trade, every
\* run's final capital is >= the initial capital, and strictly greater
\* whenever the gain of a trade at the initial capital is large enough to
\* survive the rounding of the floating-point addition.
C5_Amended ==
    (Complete /\ config.win_probability = 100
        /\ config.trades_per_month * config.months > 0) =>
        LET first == FAdd(Start, Gain(Start))
        IN  \A i \in 1 .. Len(results) :
                /\ Final(i) >= Start
                /\ first > Start => Final(i) > Start
                /\ first = Start => Final(i) = Start

\* Two all-win runs have finished: with the premium of the source the
\* final capital is above the initial capital.
C5_Witness ==
    /\ Complete /\ config.win_probability = 100
    /\ config.trades_per_month * config.months > 0
    /\ config.premium_fraction = PREMIUM
    /\ pc = "returned" /\ Len(results) = 2
    /\ Final(1) > Start /\ Final(2) > Start

\* A step of the trade loop.
TradeStep == Complete /\ pc = "trades" /\ trade' = trade + 1

\* C6: a trade changes capital by one of two updates chosen by the draw u
\* alone: u < win_probability adds capital * position_fraction *
\* premium_fraction * take_profit_fraction, otherwise capital *
\* position_fraction * premium_fraction * 0.3 is subtracted; the trade
\* touches neither the configuration, the paths nor the results.
C6_TradeUpdate ==
    [][TradeStep =>
        /\ capital' = IF Uniform(rng') < config.win_probability
                      THEN FAdd(capital, Gain(capital))
                      ELSE FSub(capital, Loss(capital))
        /\ UNCHANGED <<config, heap, monthly, results, runs, run, month, prior>>]_vars

\* A run has seen a winning and a losing trade.
C6_Witness ==
    /\ Complete /\ pc = "trades"
    /\ \E i, j \in 1 .. Len(trail) - 1 :
        trail[i + 1] > trail[i] /\ trail[j + 1] < trail[j]

\* C7: the position of a trade is the capital at that trade times the
\* position fraction: in run_simulation after every trade, position is the
\* fraction of the capital the trade started from; in simulate_option_sell
\* position_value is the fraction of the current capital whenever the loop
\* is about to look at a day.
C7_PositionCompounds ==
    /\ (Complete /\ pc = "trades" /\ trade > 0) =>
            position = FMul(trail[Len(trail) - 1], config.position_fraction)
    /\ (script = "option_selling" /\ pc = "days") =>
            position_value = FMul(capital, OS_POSITION_SIZE)

\* run_simulation has sized a position from a capital that is no longer
\* the initial one.
C7_Witness ==
    /\ Complete /\ pc = "trades" /\ trade > 0
    /\ trail[Len(trail) - 1] # Start
    /\ position # FMul(Start, config.position_fraction)

\* simulate_option_sell has resized its position after a sale.
C7_WitnessOptionSell ==
    /\ script = "option_selling" /\ pc = "days" /\ Len(trades) > 0
    /\ position_value # FMul(Dollars(OS_INITIAL_CAPITAL), OS_POSITION_SIZE)

\* C8: the path gets one value per elapsed month, after the month's trades:
\* during a run it has `month` entries, the k-th being the capital after
\* k * trades_per_month trades; a finished run's path has `months` entries
\* and, when months > 0, its last entry is the run's final capital.
C8_OneEntryPerMonth ==
    Complete =>
        /\ pc \in {"months", "trades"} =>
            /\ Len(Deref(heap, monthly)) = month
            /\ \A k \in 1 .. month :
                Deref(heap, monthly)[k] = trail[k * config.trades_per_month + 1]
        /\ \A i \in 1 .. Len(results) :
            /\ Len(Path(i)) = config.months
            /\ config.months > 0 => Final(i) = Path(i)[config.months]

\* A run of two months of two trades has finished with a path of two
\* different entries.
C8_Witness ==
    /\ Complete /\ pc = "runs" /\ Len(results) > 0
    /\ config.months = 2 /\ config.trades_per_month = 2
    /\ Len(trail) = 5
    /\ Path(Len(results)) = <<trail[3], trail[5]>>
    /\ trail[3] # trail[5]

\* C9: a call returns one result per run, every run starts from the
\* initial capital with an empty list of its own, and no step of the call
\* changes a result already produced or the path it holds.
C9_IndependentRuns ==
    [][Complete =>
        /\ pc' = "returned" => Len(results') = runs'
        /\ (pc' = "months" /\ month' = 0) =>
            /\ capital' = Start
            /\ Deref(heap', monthly') = <<>>
            /\ \A i \in 1 .. Len(results') : results'[i][2] # monthly'
        /\ pc # "returned" =>
            \A i \in 1 .. Len(results) :
                /\ Len(results') >= i
                /\ results'[i] = results[i]
                /\ Deref(heap', results[i][2]) = Deref(heap, results[i][2])]_vars

\* A call of two runs has returned, the first run having changed capital.
C9_Witness ==
    /\ Complete /\ pc = "returned" /\ runs = 2 /\ Len(results) = 2
    /\ Final(1) # Start /\ Len(Path(1)) = 2 /\ Len(Path(2)) = 2
    /\ results[1][2] # results[2][2]

\* Whether some sequence of n trade outcomes takes the capital c below zero.
RECURSIVE MayGoNegative(_, _)
MayGoNegative(c, n) ==
    \/ c < 0
    \/ /\ n > 0
       /\ \E u \in {0, 99} : MayGoNegative(TradeUpdate(c, u, config), n - 1)

\* C10 as stated: capital may go negative; a run that is about to begin
\* its trades, and whose trades can lose, has a sequence of trade outcomes
\* after which its capital is below zero.
C10_Original ==
    (Complete /\ pc = "months" /\ month = 0
        /\ config.win_probability < 100
        /\ config.trades_per_month * config.months > 0) =>
        MayGoNegative(capital, config.trades_per_month * config.months)

\* C10, amended: the simulator applies no floor to capital, but with the
\* fractions in their ranges a losing trade takes less than a third of the
\* capital, so the capital of a run and every value it records stay above
\* zero.
C10_Amended ==
    Complete =>
        /\ pc \in {"months", "trades"} =>
            capital > 0 /\ \A k \in 1 .. Len(trail) : trail[k] > 0
        /\ \A p \in Paths : \A k \in 1 .. Len(p) : p[k] > 0
        /\ \A i \in 1 .. Len(results) : Final(i) > 0

\* A run that lost every one of four trades with the whole capital at
\* stake has finished, its capital still positive.
C10_Witness ==
    /\ Complete /\ pc = "runs" /\ Len(results) > 0
    /\ config.position_fraction = <<1, 1>>
    /\ Len(trail) = 5
    /\ \A k \in 1 .. 4 : trail[k + 1] < trail[k]
    /\ Final(Len(results)) > 0

\* ------------------------------------------------------- the bot's claims
RunCalls == {"connect", "get_account_value", "get_positions", "scan"}

\* C11 (as stated): in the polling loop a failure of a collaborator is not
\* fatal: after a step of run in which the market-data fetch for a ticker
\* or a broker call (connect, account value, positions) failed, no
\* exception is on its way out of run and the loop goes on.
C11_Original ==
    (script = "bot" /\ last.op \in RunCalls /\ last.failed)
        => (exc = "none" /\ pc \notin {"bot_finally", "bot_stopped"})

HasNetLiquidation(items) ==
    \E k \in 1 .. Len(items) : items[k].tag = "NetLiquidation"

\* C12: get_account_value returns the fallback INITIAL_CAPITAL and leaves
\* self.account_value as it was whenever the client is not connected, the
\* broker call raises or the summary has no NetLiquidation item; a value
\* other than what was there is stored, or one other than the fallback
\* returned, only when a NetLiquidation item was found, and it is that
\* item's value that is both stored and returned.
C12_FallbackOrLive ==
    [][(pc = "bot_account" /\ pc' = "bot_positions") =>
        /\ (\/ ~connected
            \/ account'.raised
            \/ ~HasNetLiquidation(account'.items))
              => /\ cash' = Dollars(BOT_INITIAL_CAPITAL)
                 /\ account_value' = account_value
        /\ (account_value' # account_value \/ cash' # Dollars(BOT_INITIAL_CAPITAL))
              => /\ connected /\ ~account'.raised
                 /\ HasNetLiquidation(account'.items)
                 /\ LET k == FirstNetLiquidation(account'.items)
                    IN  /\ account_value' = account'.items[k].num
                        /\ cash' = account_value'
      ]_vars

\* A live value was stored before, then the broker call raised: the caller
\* got the fallback and the stored value stayed.
C12_Witness ==
    /\ script = "bot" /\ pc = "bot_positions"
    /\ connected /\ account.raised
    /\ cash = Dollars(BOT_INITIAL_CAPITAL)
    /\ account_value = Dollars(60000)

ExecuteTradeStep == last'.op = "execute_trade" /\ pc' = pc

\* C13: in simulation mode place_order makes no broker call and returns
\* None, so execute_trade leaves bot.positions unchanged; execute_trade
\* appends a position record (one, at the end) only when place_order
\* returned a trade handle.
C13_SimulationPlacesNothing ==
    [][ExecuteTradeStep =>
        /\ ~connected => /\ last'.call = "none"
                         /\ last'.ret = "None"
                         /\ bot_positions' = bot_positions
        /\ bot_positions' # bot_positions
              => /\ last'.ret = "trade"
                 /\ Len(bot_positions') = Len(bot_positions) + 1
                 /\ SubSeq(bot_positions', 1, Len(bot_positions)) = bot_positions
                 /\ bot_positions'[Len(bot_positions')].ticker \in
                        {TICKERS[k] : k \in 1 .. Len(TICKERS)}
        /\ last'.ret # "trade" => bot_positions' = bot_positions
      ]_vars

C13_Witness ==
    /\ script = "bot" /\ ~connected
    /\ last.op = "execute_trade" /\ last.call = "none" /\ last.ret = "None"
    /\ bot_positions = <<>>

C13_WitnessPlaced ==
    /\ script = "bot" /\ connected
    /\ last.op = "execute_trade" /\ last.ret = "trade"
    /\ Len(bot_positions) = MAX_POSITIONS
    /\ bot_positions[MAX_POSITIONS].ticker = TICKERS[1]

CycleOrder == <<"account", "positions", "exits", "scan">>
IsPrefix(s, t) == Len(s) <= Len(t) /\ s = SubSeq(t, 1, Len(s))

\* C14: the steps of a cycle of run come in the order account value,
\* positions, check exits, scan; the scan is entered only when the
\* positions just fetched number fewer than MAX_POSITIONS, and with
\* MAX_POSITIONS or more the cycle goes to its sleep with no scan and no
\* opportunity reported.
C14_CycleOrder ==
    [][/\ IsPrefix(cycle', CycleOrder)
       /\ pc' = "bot_scan" => cycle' = CycleOrder
       /\ pc' = "bot_gate" => cycle' = SubSeq(CycleOrder, 1, 3)
       /\ (pc = "bot_gate" /\ pc' # pc) =>
            IF Len(bot_positions) < MAX_POSITIONS
            THEN pc' = "bot_scan" /\ opportunities' = <<>>
            ELSE /\ pc' = "bot_sleep" /\ cycle' = SubSeq(CycleOrder, 1, 3)
                 /\ opportunities' = opportunities
       /\ (pc' = "bot_scan" /\ pc # pc') => Len(bot_positions') < MAX_POSITIONS
      ]_vars

\* A cycle that fetched MAX_POSITIONS or more positions and went to sleep
\* without a scan.
C14_Witness ==
    /\ script = "bot" /\ pc = "bot_sleep"
    /\ cycle = SubSeq(CycleOrder, 1, 3)
    /\ Len(bot_positions) >= MAX_POSITIONS

C14_WitnessScan ==
    /\ script = "bot" /\ pc = "bot_sleep"
    /\ cycle = CycleOrder
    /\ Len(bot_positions) = MAX_POSITIONS - 1

\* C16 (as stated): whenever run has stopped, the client's connected flag
\* is False, and if it stopped from inside the loop the last thing run did
\* was to invoke disconnect.
C16_Original ==
    (script = "bot" /\ pc = "bot_stopped")
        => /\ ~connected
           /\ cycle # <<>> => last.op = "disconnect"

\* ---------------------------------------------------- RSIStrategy's claim
\* C15: on every bar, next() buys only with no position open and an RSI
\* that is a number below rsi_threshold, and records that bar as
\* entry_bar; with a position open it never buys, and on the bars where it
\* acts it closes exactly when bars - entry_bar has reached hold_days, so
\* on the first such bar; with fewer than RSI_PERIOD bars or a NaN RSI it
\* places no order and records nothing.
C15_EntryAndExit ==
    [][bars' = bars + 1 =>
        /\ signal' = "buy" => /\ ~in_position'
                              /\ rsi' # NaN /\ rsi' < RSI_THRESHOLD
                              /\ bars' >= RSI_PERIOD
                              /\ entry_bar' = bars'
                              /\ order' = "buy"
        /\ in_position' => signal' # "buy"
        /\ signal' # "buy" => entry_bar' = entry_bar
        /\ signal' = "close" => in_position' /\ order' = "close"
        /\ (in_position' /\ bars' >= RSI_PERIOD /\ rsi' # NaN)
              => (signal' = "close" <=> bars' - entry_bar >= hold_days)
        /\ (bars' < RSI_PERIOD \/ rsi' = NaN)
              => signal' = "skip" /\ order' = "none"
        /\ (~in_position' /\ bars' >= RSI_PERIOD /\ rsi' # NaN
                /\ rsi' < RSI_THRESHOLD) => signal' = "buy"
      ]_vars

\* A position bought at entry_bar is closed on the bar hold_days later.
C15_Witness ==
    /\ script = "rsi" /\ signal = "close" /\ in_position
    /\ hold_days = MaxHold
    /\ bars - entry_bar = hold_days

\* A NaN bar passed with the hold reached, and the close came on the next
\* bar with a number.
C15_WitnessAfterNaN ==
    /\ script = "rsi" /\ signal = "close" /\ in_position
    /\ bars - entry_bar > hold_days
====
